---- MODULE Spec2Model ----
(***************************************************************************)
(* Model of src/lambda_function.py: an HTTP-triggered handler that turns a *)
(* prompt into an image (Bedrock invoke_model), uploads it (S3 put_object) *)
(* and answers with a presigned URL (S3 generate_presigned_url).           *)
(*                                                                         *)
(* Python strings the handler manipulates (parameters, base64 text, keys)  *)
(* are sequences of one-character strings, so that strip(), b64decode()    *)
(* and the key's f-string are computed and not assumed.  An optional value *)
(* (a dict entry that may be missing or null) is a sequence of length at   *)
(* most one: None is <<>>, a present value v is <<v>>.  A response body is *)
(* the payload handed to json.dumps.                                       *)
(***************************************************************************)
EXTENDS Integers, Sequences, FiniteSets, TLC

VARIABLES
  pc,      \* per invocation: "idle", "invoke_model", "put_object" or "done"
  event,   \* per invocation: the event argument of lambda_handler
  data,    \* per invocation: the parsed provider response (line 92)
  locals,  \* per invocation: the second read and the uuid4 drawn (lines 105-107)
  calls,   \* per invocation: the backend calls made, with their arguments
  rets,    \* per invocation: how each call ended (returned or raised)
  result,  \* per invocation: the response returned, or the unhandled failure
  store,   \* the bucket: key -> object
  now      \* the UTC clock, in seconds

vars == <<pc, event, data, locals, calls, rets, result, store, now>>

----------------------------------------------------------------------------
(* Bounds of the model *)

\* invocations that may run concurrently in SpecConcurrent
MaxInvocations == 2
\* the UTC clock advances from second 0 to second MaxClock
MaxClock == 1

----------------------------------------------------------------------------
(* Optional values *)

None == <<>>
Some(v) == <<v>>

----------------------------------------------------------------------------
(* Module configuration, lines 10-27 (defaults of the environment) *)

S3_REGION == "us-east-2"
MODEL_ID == "stability.sd3-5-large-v1:0"
BUCKET_NAME == "myovieostermageenerator03"
KEY_PREFIX == <<"g","e","n","e","r","a","t","e","d","/">>
URL_EXPIRES_SECONDS == 3600

----------------------------------------------------------------------------
(* _headers and _resp *)

_headers ==
  [ContentType |-> "application/json",
   AccessControlAllowOrigin |-> "*",
   AccessControlAllowHeaders |-> "Content-Type",
   AccessControlAllowMethods |-> "GET,OPTIONS"]

_resp(status_code, payload) ==
  [statusCode |-> status_code, headers |-> _headers, body |-> payload]

----------------------------------------------------------------------------
(* str.strip() *)

Whitespace == {" ", "\t", "\n", "\r"}

RECURSIVE LStrip(_)
LStrip(s) ==
  IF s = <<>> THEN <<>>
  ELSE IF Head(s) \in Whitespace THEN LStrip(Tail(s)) ELSE s

RECURSIVE RStrip(_)
RStrip(s) ==
  IF s = <<>> THEN <<>>
  ELSE IF s[Len(s)] \in Whitespace THEN RStrip(SubSeq(s, 1, Len(s) - 1)) ELSE s

\* the parameter used as received, .strip() forgotten
NoStrip(s) == s

Strip(s) == RStrip(LStrip(s))

----------------------------------------------------------------------------
(* _qsp and _get_param *)

ParamNames == {"prompt", "negative_prompt", "aspect_ratio", "output_format"}

EmptyDict == [n \in ParamNames |-> None]

_qsp(ev) ==
  IF ev.queryStringParameters = None THEN EmptyDict
  ELSE ev.queryStringParameters[1]

\* the query string consulted before the direct field
_get_param_query_first(ev, name, default) ==
  IF _qsp(ev)[name] # None THEN _qsp(ev)[name][1]
  ELSE IF ev[name] # None THEN ev[name][1]
  ELSE default

_get_param(ev, name, default) ==
  IF ev[name] # None THEN ev[name][1]
  ELSE IF _qsp(ev)[name] # None THEN _qsp(ev)[name][1]
  ELSE default

----------------------------------------------------------------------------
(* base64.b64decode: binascii.a2b_base64 without strict mode *)

B64Alphabet ==
  <<"A","B","C","D","E","F","G","H","I","J","K","L","M","N","O","P",
    "Q","R","S","T","U","V","W","X","Y","Z","a","b","c","d","e","f",
    "g","h","i","j","k","l","m","n","o","p","q","r","s","t","u","v",
    "w","x","y","z","0","1","2","3","4","5","6","7","8","9","+","/">>

IsB64Char(c) == \E k \in DOMAIN B64Alphabet : B64Alphabet[k] = c

B64Value(c) == (CHOOSE k \in DOMAIN B64Alphabet : B64Alphabet[k] = c) - 1

DecodeError == [ok |-> FALSE, bytes |-> <<>>]

RECURSIVE A2bBase64(_, _, _, _, _, _)
A2bBase64(s, i, quad_pos, leftchar, pads, out) ==
  IF i > Len(s)
  THEN IF quad_pos # 0 THEN DecodeError ELSE [ok |-> TRUE, bytes |-> out]
  ELSE LET c == s[i] IN
    IF c = "="
    THEN IF quad_pos >= 2 /\ quad_pos + pads + 1 >= 4
         THEN [ok |-> TRUE, bytes |-> out]
         ELSE A2bBase64(s, i + 1, quad_pos, leftchar,
                        IF quad_pos >= 2 THEN pads + 1 ELSE pads, out)
    ELSE IF ~IsB64Char(c)
    THEN A2bBase64(s, i + 1, quad_pos, leftchar, pads, out)
    ELSE LET v == B64Value(c) IN
      CASE quad_pos = 0 -> A2bBase64(s, i + 1, 1, v, 0, out)
        [] quad_pos = 1 ->
             A2bBase64(s, i + 1, 2, v % 16, 0,
                       Append(out, (leftchar * 4 + v \div 16) % 256))
        [] quad_pos = 2 ->
             A2bBase64(s, i + 1, 3, v % 4, 0,
                       Append(out, (leftchar * 16 + v \div 4) % 256))
        [] quad_pos = 3 ->
             A2bBase64(s, i + 1, 0, 0, 0,
                       Append(out, (leftchar * 64 + v) % 256))

\* image_b64 is optional: artifacts[0].get("base64") may be None, and
\* b64decode(None) raises TypeError
b64decode(image_b64) ==
  IF image_b64 = None THEN DecodeError
  ELSE A2bBase64(image_b64[1], 1, 0, 0, 0, <<>>)

----------------------------------------------------------------------------
(* Key construction, lines 105-107 *)

Digits == <<"0","1","2","3","4","5","6","7","8","9">>

TwoDigits(n) == <<Digits[(n \div 10) + 1], Digits[(n % 10) + 1]>>

\* datetime.now(timezone.utc).strftime("%Y%m%dT%H%M%SZ"), the clock counting
\* the seconds of the minute 2026-01-01 00:00 UTC
strftime(t) ==
  <<"2","0","2","6","0","1","0","1","T","0","0","0","0">>
    \o TwoDigits(t) \o <<"Z">>

\* uuid.uuid4().hex: 32 hexadecimal digits drawn at random; the draw is a
\* nondeterministic choice among these values
UuidHex ==
  { <<"3","f","2","a","9","c","0","4","7","b","1","e","4","d","6","a",
      "8","5","c","2","0","9","f","e","7","3","1","b","6","4","d","0">>,
    <<"b","7","e","1","5","1","6","2","8","a","e","d","4","a","6","a",
      "b","f","7","1","5","8","8","0","9","c","f","4","f","3","c","7">> }

prefix ==
  IF KEY_PREFIX # <<>> /\ KEY_PREFIX[Len(KEY_PREFIX)] = "/"
  THEN KEY_PREFIX ELSE KEY_PREFIX \o <<"/">>

\* the key built from the timestamp alone
MakeKeyNoSuffix(ts, hex, output_format) ==
  prefix \o ts \o <<".">> \o output_format

MakeKey(ts, hex, output_format) ==
  prefix \o ts \o <<"-">> \o hex \o <<".">> \o output_format

ContentTypeOf(output_format) == <<"i","m","a","g","e","/">> \o output_format

----------------------------------------------------------------------------
(* Requests and provider responses the environment may supply *)

HttpMethods == {None, Some("GET"), Some("OPTIONS")}

DirectPrompts ==
  {None, Some(<<>>), Some(<<" ","\t">>), Some(<<" ","c","a","t"," ">>)}

QueryPrompts == {None, Some(<<"\n"," ">>), Some(<<"d","o","g">>)}

QueryStrings ==
  {None} \cup
  { Some([prompt |-> p, negative_prompt |-> None,
          aspect_ratio |-> o[1], output_format |-> o[2]]) :
      p \in QueryPrompts,
      o \in { <<None, None>>,
              <<Some(<<"4",":","5">>), Some(<<"w","e","b","p","\n">>)>> } }

Events ==
  [httpMethod : HttpMethods,
   prompt : DirectPrompts,
   negative_prompt : {None, Some(<<"b","l","u","r"," ">>)},
   aspect_ratio : {None, Some(<<"1","6",":","9">>)},
   output_format : {None, Some(<<" ","j","p","e","g">>)},
   queryStringParameters : QueryStrings]

\* the event before an invocation has received one: the empty dict
NoEvent ==
  [httpMethod |-> None, prompt |-> None, negative_prompt |-> None,
   aspect_ratio |-> None, output_format |-> None,
   queryStringParameters |-> None]

B64_ABC == <<"Q","U","J","D">>
B64_DEF == <<"R","E","V","G">>
B64_A == <<"Q","Q","=","=">>
B64_Short == <<"Q","U","J">>

ImagesShapes ==
  {None, Some(<<>>), Some(<<B64_ABC>>), Some(<<B64_DEF, B64_ABC>>),
   Some(<<B64_Short>>)}

ArtifactsShapes ==
  {None, Some(<<>>), Some(<<[base64 |-> Some(B64_ABC)]>>),
   Some(<<[base64 |-> Some(B64_A)], [base64 |-> Some(B64_DEF)]>>),
   Some(<<[base64 |-> None]>>)}

\* json.loads(br["body"].read()): the fields of the provider response the
\* handler looks at
ProviderResponses == [images : ImagesShapes, artifacts : ArtifactsShapes]

NoData == [images |-> None, artifacts |-> None]

----------------------------------------------------------------------------
(* State *)

NoResult == [kind |-> "none"]
Returned(resp) == [kind |-> "returned", response |-> resp]
Raised == [kind |-> "raised"]

\* the second read from the clock and the uuid4 drawn at lines 105-107
NoLocals == [second |-> 0, hex |-> <<>>]

InitFor(ids) ==
  /\ pc = [i \in ids |-> "idle"]
  /\ event = [i \in ids |-> NoEvent]
  /\ data = [i \in ids |-> NoData]
  /\ locals = [i \in ids |-> NoLocals]
  /\ calls = [i \in ids |-> <<>>]
  /\ rets = [i \in ids |-> <<>>]
  /\ result = [i \in ids |-> NoResult]
  /\ store = <<>>
  /\ now = 0

Init == InitFor({1})

InitConcurrent == InitFor(1 .. MaxInvocations)

----------------------------------------------------------------------------
(* lambda_handler *)

\* lines 95-100: the encoded image, or no recognized shape
HasImages(d) == d.images # None /\ d.images[1] # <<>>
HasArtifacts(d) == d.artifacts # None /\ d.artifacts[1] # <<>>

\* the artifacts shape probed before the images shape
SelectArtifactsFirst(d) ==
  IF HasArtifacts(d) THEN d.artifacts[1][1].base64
  ELSE Some(d.images[1][1])

SelectImage(d) ==
  IF HasImages(d) THEN Some(d.images[1][1])
  ELSE d.artifacts[1][1].base64

request_body(ev) ==
  [prompt |-> Strip(_get_param(ev, "prompt", <<>>)),
   negative_prompt |-> Strip(_get_param(ev, "negative_prompt", <<>>)),
   mode |-> "text-to-image",
   seed |-> 0,
   output_format |-> Strip(_get_param(ev, "output_format", <<"p","n","g">>)),
   aspect_ratio |-> Strip(_get_param(ev, "aspect_ratio", <<"1",":","1">>))]

\* the 502 body without the provider response
UpstreamErrorNoRaw(d) ==
  _resp(502, [error |-> "No image in Bedrock response"])

\* line 100
UpstreamError(d) ==
  _resp(502, [error |-> "No image in Bedrock response", raw |-> d])

\* line 69
MissingPrompt ==
  _resp(400, [error |-> "Missing required parameter: prompt"])

\* line 65
PreflightOk == [statusCode |-> 200, headers |-> _headers, body |-> [ok |-> TRUE]]

\* the preflight test placed after the prompt validation
PreflightAfterPrompt(ev) ==
  /\ ev.httpMethod = Some("OPTIONS")
  /\ Strip(_get_param(ev, "prompt", <<>>)) # <<>>

IsPreflight(ev) == ev.httpMethod = Some("OPTIONS")

Finish(i, res) ==
  /\ pc' = [pc EXCEPT ![i] = "done"]
  /\ result' = [result EXCEPT ![i] = res]

\* lines 62-90: from the entry of the handler to the call of invoke_model
Receive(i, ev) ==
  /\ pc[i] = "idle"
  /\ event' = [event EXCEPT ![i] = ev]
  /\ IF IsPreflight(ev)
     THEN /\ Finish(i, Returned(PreflightOk))
          /\ UNCHANGED calls
     ELSE IF Strip(_get_param(ev, "prompt", <<>>)) = <<>>
     THEN /\ Finish(i, Returned(MissingPrompt))
          /\ UNCHANGED calls
     ELSE /\ pc' = [pc EXCEPT ![i] = "invoke_model"]
          /\ calls' = [calls EXCEPT ![i] = Append(@,
                 [op |-> "invoke_model", modelId |-> MODEL_ID,
                  body |-> request_body(ev)])]
          /\ UNCHANGED result
  /\ UNCHANGED <<data, locals, rets, store, now>>

\* a handler that catches the failure of invoke_model and calls it again
InvokeModelRaisesRetried(i) ==
  /\ pc[i] = "invoke_model"
  /\ Len(calls[i]) < 3
  /\ rets' = [rets EXCEPT ![i] = Append(@, [op |-> "invoke_model", ok |-> FALSE])]
  /\ calls' = [calls EXCEPT ![i] = Append(@, calls[i][1])]
  /\ UNCHANGED <<pc, result, event, data, locals, store, now>>

\* line 85: invoke_model raises (network, auth, throttling); nothing catches
InvokeModelRaises(i) ==
  /\ pc[i] = "invoke_model"
  /\ rets' = [rets EXCEPT ![i] = Append(@, [op |-> "invoke_model", ok |-> FALSE])]
  /\ Finish(i, Raised)
  /\ UNCHANGED <<event, data, locals, calls, store, now>>

\* lines 92-114: invoke_model returns d; select, decode, build the key and
\* call put_object
InvokeModelReturns(i, d, hex) ==
  /\ pc[i] = "invoke_model"
  /\ data' = [data EXCEPT ![i] = d]
  /\ rets' = [rets EXCEPT ![i] = Append(@, [op |-> "invoke_model", ok |-> TRUE])]
  /\ IF ~HasImages(d) /\ ~HasArtifacts(d)
     THEN /\ Finish(i, Returned(UpstreamError(d)))
          /\ UNCHANGED <<calls, locals>>
     ELSE LET image_bytes == b64decode(SelectImage(d))
              output_format == calls[i][1].body.output_format
              key == MakeKey(strftime(now), hex, output_format)
          IN IF ~image_bytes.ok
             THEN /\ Finish(i, Raised)
                  /\ UNCHANGED <<calls, locals>>
             ELSE /\ pc' = [pc EXCEPT ![i] = "put_object"]
                  /\ locals' = [locals EXCEPT ![i] = [second |-> now, hex |-> hex]]
                  /\ calls' = [calls EXCEPT ![i] = Append(@,
                         [op |-> "put_object", Bucket |-> BUCKET_NAME,
                          Key |-> key, Body |-> image_bytes.bytes,
                          ContentType |-> ContentTypeOf(output_format)])]
                  /\ UNCHANGED result
  /\ UNCHANGED <<event, store, now>>

\* line 109: put_object raises; nothing catches, nothing is written
PutObjectRaises(i) ==
  /\ pc[i] = "put_object"
  /\ rets' = [rets EXCEPT ![i] = Append(@, [op |-> "put_object", ok |-> FALSE])]
  /\ Finish(i, Raised)
  /\ UNCHANGED <<event, data, locals, calls, store, now>>

\* an upload that replaces the content of the bucket by the new object
PutObjectClearing(st, put) ==
  [k \in {put.Key} |-> [Body |-> put.Body, ContentType |-> put.ContentType]]

\* the object store after put_object(Key, Body, ContentType): the object of
\* that key is created or replaced
PutObject(st, put) ==
  [k \in DOMAIN st \cup {put.Key} |->
     IF k = put.Key THEN [Body |-> put.Body, ContentType |-> put.ContentType]
     ELSE st[k]]

\* what generate_presigned_url returns for its arguments
SignedUrl(call) ==
  [signed |-> TRUE, Bucket |-> call.Bucket, Key |-> call.Key,
   ExpiresIn |-> call.ExpiresIn, HttpMethod |-> call.HttpMethod]

\* line 125: the plain object URL, computed and left out of the response
object_url_of(key) ==
  [signed |-> FALSE, Bucket |-> BUCKET_NAME, Region |-> S3_REGION, Key |-> key]

PresignCall(put) ==
  [op |-> "generate_presigned_url", ClientMethod |-> "get_object",
   Bucket |-> BUCKET_NAME, Key |-> put.Key,
   ExpiresIn |-> URL_EXPIRES_SECONDS, HttpMethod |-> "GET"]

\* the plain object URL returned next to the presigned one
SuccessBodyWithObjectUrl(presigned_url, object_url) ==
  [presigned_url |-> presigned_url, object_url |-> object_url]

SuccessBody(presigned_url, object_url) == [presigned_url |-> presigned_url]

\* lines 109-142: put_object returns; generate_presigned_url is called and
\* either raises or returns the URL the 200 response carries
PutObjectReturns(i, signs) ==
  /\ pc[i] = "put_object"
  /\ LET put == calls[i][2]
         call == PresignCall(put)
     IN /\ store' = PutObject(store, put)
        /\ calls' = [calls EXCEPT ![i] = Append(@, call)]
        /\ IF signs
           THEN /\ rets' = [rets EXCEPT ![i] = @ \o
                       <<[op |-> "put_object", ok |-> TRUE],
                         [op |-> "generate_presigned_url", ok |-> TRUE,
                          url |-> SignedUrl(call)]>>]
                /\ Finish(i, Returned([statusCode |-> 200, headers |-> _headers,
                       body |-> SuccessBody(SignedUrl(call), object_url_of(put.Key))]))
           ELSE /\ rets' = [rets EXCEPT ![i] = @ \o
                       <<[op |-> "put_object", ok |-> TRUE],
                         [op |-> "generate_presigned_url", ok |-> FALSE]>>]
                /\ Finish(i, Raised)
  /\ UNCHANGED <<event, data, locals, now>>

\* the UTC clock reaches the next second
Tick ==
  /\ now < MaxClock
  /\ now' = now + 1
  /\ UNCHANGED <<pc, event, data, locals, calls, rets, result, store>>

Next ==
  \/ \E i \in DOMAIN pc, ev \in Events : Receive(i, ev)
  \/ \E i \in DOMAIN pc : InvokeModelRaises(i)
  \/ \E i \in DOMAIN pc, d \in ProviderResponses, hex \in UuidHex :
       InvokeModelReturns(i, d, hex)
  \/ \E i \in DOMAIN pc : PutObjectRaises(i)
  \/ \E i \in DOMAIN pc, signs \in BOOLEAN : PutObjectReturns(i, signs)
  \/ Tick

Spec == Init /\ [][Next]_vars

----------------------------------------------------------------------------
(* Concurrent invocations: the platform runs the handler for several       *)
(* requests at once, each in its own context; they share the bucket and    *)
(* the clock.                                                              *)

ConcurrentEvents ==
  { e \in Events :
      /\ e.queryStringParameters = None
      /\ e.negative_prompt = None /\ e.aspect_ratio = None
      /\ e.output_format = None
      /\ \/ e.httpMethod = Some("OPTIONS") /\ e.prompt # None /\ e.prompt[1] # <<>>
            /\ Strip(e.prompt[1]) # <<>>
         \/ e.httpMethod = Some("GET") /\ e.prompt \in {None, Some(<<" ","c","a","t"," ">>)} }

ConcurrentResponses ==
  { d \in ProviderResponses :
      \/ d = NoData
      \/ d.images = Some(<<B64_ABC>>) /\ d.artifacts = None
      \/ d.images = None /\ d.artifacts # None /\ Len(d.artifacts[1]) = 2 }

NextConcurrent ==
  \/ \E i \in DOMAIN pc, ev \in ConcurrentEvents : Receive(i, ev)
  \/ \E i \in DOMAIN pc : InvokeModelRaises(i)
  \/ \E i \in DOMAIN pc, d \in ConcurrentResponses, hex \in UuidHex :
       InvokeModelReturns(i, d, hex)
  \/ \E i \in DOMAIN pc : PutObjectRaises(i)
  \/ \E i \in DOMAIN pc, signs \in BOOLEAN : PutObjectReturns(i, signs)
  \/ Tick

SpecConcurrent == InitConcurrent /\ [][NextConcurrent]_vars

----------------------------------------------------------------------------
(* Properties *)

Started(i) == pc[i] # "idle"

ReturnedWith(i, status, body) ==
  /\ pc[i] = "done"
  /\ result[i].kind = "returned"
  /\ result[i].response.statusCode = status
  /\ result[i].response.body = body

OpsOf(i) == [k \in 1 .. Len(calls[i]) |-> calls[i][k].op]

\* an optional string that is missing, empty or made of whitespace only
Blank(o) == o = None \/ \A k \in 1 .. Len(o[1]) : o[1][k] \in Whitespace

BlankPromptInBothSources(ev) ==
  /\ Blank(ev.prompt)
  /\ \/ ev.queryStringParameters = None
     \/ Blank(ev.queryStringParameters[1].prompt)

\* C1: a request that is not a preflight and whose prompt is missing, empty
\* or whitespace-only in the direct fields and in the query string gets 400
\* with body {"error": "Missing required parameter: prompt"}, and the
\* invocation makes no backend call.
C1_MissingPromptIs400 ==
  \A i \in DOMAIN pc :
    (Started(i) /\ event[i].httpMethod # Some("OPTIONS")
       /\ BlankPromptInBothSources(event[i]))
    => /\ ReturnedWith(i, 400, [error |-> "Missing required parameter: prompt"])
       /\ calls[i] = <<>>
       /\ rets[i] = <<>>

C1_Witness ==
  \E i \in DOMAIN pc :
    /\ event[i].httpMethod = Some("GET")
    /\ event[i].prompt = Some(<<" ","\t">>)
    /\ event[i].queryStringParameters # None
    /\ event[i].queryStringParameters[1].prompt = Some(<<"\n"," ">>)
    /\ ReturnedWith(i, 400, [error |-> "Missing required parameter: prompt"])

\* C2: a request whose httpMethod is OPTIONS gets 200 with body {"ok": true}
\* whatever its other parameters are, and the invocation makes no backend
\* call.
C2_PreflightIs200 ==
  \A i \in DOMAIN pc :
    (Started(i) /\ event[i].httpMethod = Some("OPTIONS"))
    => /\ ReturnedWith(i, 200, [ok |-> TRUE])
       /\ calls[i] = <<>>
       /\ rets[i] = <<>>

C2_Witness ==
  \E i \in DOMAIN pc :
    /\ event[i].httpMethod = Some("OPTIONS")
    /\ event[i].prompt = Some(<<>>)
    /\ event[i].output_format # None
    /\ ReturnedWith(i, 200, [ok |-> TRUE])

\* the two shapes of the provider response, as the claims word them
ImagesGiven(d) == d.images # None /\ Len(d.images[1]) > 0
ArtifactsGiven(d) == d.artifacts # None /\ Len(d.artifacts[1]) > 0

\* the encoded image: images first, artifacts second
Encoded(d) ==
  IF ImagesGiven(d) THEN Some(Head(d.images[1]))
  ELSE IF ArtifactsGiven(d) THEN Head(d.artifacts[1]).base64
  ELSE None

Usable(d) == Encoded(d) # None /\ b64decode(Encoded(d)).ok

GotData(i) == Len(rets[i]) >= 1 /\ rets[i][1].ok

CallOrder == <<"invoke_model", "put_object", "generate_presigned_url">>

\* C3: within an invocation the backend calls are made in the order
\* invoke_model, put_object, generate_presigned_url, each at most once;
\* put_object only after invoke_model returned a usable image,
\* generate_presigned_url only after put_object returned; a step that fails
\* is the last one and is not retried.
C3_CallsInOrderOnce ==
  \A i \in DOMAIN pc :
    /\ Len(calls[i]) <= 3
    /\ Len(rets[i]) <= Len(calls[i])
    /\ \A k \in 1 .. Len(calls[i]) : calls[i][k].op = CallOrder[k]
    /\ \A k \in 1 .. Len(rets[i]) : rets[i][k].op = CallOrder[k]
    /\ Len(calls[i]) >= 2 => (GotData(i) /\ Usable(data[i]))
    /\ Len(calls[i]) >= 3 => rets[i][2].ok
    /\ \A k \in 1 .. Len(rets[i]) :
         ~rets[i][k].ok
         => /\ k = Len(calls[i])
            /\ pc[i] = "done"
            /\ result[i].kind = "raised"
    /\ (GotData(i) /\ ~Usable(data[i]))
         => (Len(calls[i]) = 1 /\ pc[i] = "done")

C3_Witness ==
  \E i \in DOMAIN pc :
    /\ OpsOf(i) = <<"invoke_model", "put_object">>
    /\ Len(rets[i]) = 2
    /\ rets[i][1].ok /\ ~rets[i][2].ok
    /\ pc[i] = "done"

\* C4: a provider response in which images and artifacts are both absent or
\* empty gets 502 with error "No image in Bedrock response" and raw equal to
\* the provider response, and nothing is uploaded or signed.
C4_NoShapeIs502 ==
  \A i \in DOMAIN pc :
    (GotData(i) /\ ~ImagesGiven(data[i]) /\ ~ArtifactsGiven(data[i]))
    => /\ ReturnedWith(i, 502,
            [error |-> "No image in Bedrock response", raw |-> data[i]])
       /\ OpsOf(i) = <<"invoke_model">>

C4_Witness ==
  \E i \in DOMAIN pc :
    /\ GotData(i)
    /\ data[i] = [images |-> None, artifacts |-> None]
    /\ ReturnedWith(i, 502,
         [error |-> "No image in Bedrock response", raw |-> data[i]])

\* C5: whenever neither shape yields an encoded image, the first artifact
\* without a base64 field included, the invocation ends with the 502
\* response embedding the provider response: it does not fail unhandled and
\* uploads nothing.
C5_NoEncodedImageIs502 ==
  \A i \in DOMAIN pc :
    (GotData(i) /\ Encoded(data[i]) = None)
    => /\ ReturnedWith(i, 502,
            [error |-> "No image in Bedrock response", raw |-> data[i]])
       /\ OpsOf(i) = <<"invoke_model">>

\* C6: the encoded image is the first element of images when images is a
\* non-empty list, else the base64 field of the first artifact; the Body
\* given to put_object is its base64 decoding ("QUJD" gives the bytes of
\* "ABC"), the same for both shapes.
C6_BodyIsDecodedSelection ==
  \A i \in DOMAIN pc :
    Len(calls[i]) >= 2
    => /\ Encoded(data[i]) # None
       /\ calls[i][2].Body = b64decode(Encoded(data[i])).bytes
       /\ Encoded(data[i]) = Some(<<"Q","U","J","D">>)
            => calls[i][2].Body = <<65, 66, 67>>
       /\ Encoded(data[i]) = Some(<<"R","E","V","G">>)
            => calls[i][2].Body = <<68, 69, 70>>
       /\ Encoded(data[i]) = Some(<<"Q","Q","=","=">>)
            => calls[i][2].Body = <<65>>

C6_Witness ==
  \E i \in DOMAIN pc :
    /\ Len(calls[i]) >= 2
    /\ data[i].images = Some(<<B64_DEF, B64_ABC>>)
    /\ data[i].artifacts = Some(<<[base64 |-> Some(B64_ABC)]>>)
    /\ calls[i][2].Body = <<68, 69, 70>>

\* the resolution of a parameter as the claim words it
Resolved(ev, name, default) ==
  IF ev[name] # None THEN ev[name][1]
  ELSE IF ev.queryStringParameters # None
          /\ ev.queryStringParameters[1][name] # None
       THEN ev.queryStringParameters[1][name][1]
       ELSE default

OmittedInBoth(ev, name) ==
  /\ ev[name] = None
  /\ ev.queryStringParameters = None \/ ev.queryStringParameters[1][name] = None

\* C9: each parameter of the payload sent to invoke_model is the direct
\* field when present, else the query-string parameter when present, else
\* the default: aspect_ratio "1:1", output_format "png", negative_prompt "";
\* mode is "text-to-image" and seed is 0.
C9_ParametersResolved ==
  \A i \in DOMAIN pc :
    Len(calls[i]) >= 1
    => LET body == calls[i][1].body
           ev == event[i]
       IN /\ body.prompt = Strip(Resolved(ev, "prompt", <<>>))
          /\ body.negative_prompt = Strip(Resolved(ev, "negative_prompt", <<>>))
          /\ body.aspect_ratio = Strip(Resolved(ev, "aspect_ratio", <<"1",":","1">>))
          /\ body.output_format = Strip(Resolved(ev, "output_format", <<"p","n","g">>))
          /\ body.mode = "text-to-image"
          /\ body.seed = 0
          /\ OmittedInBoth(ev, "aspect_ratio") => body.aspect_ratio = <<"1",":","1">>
          /\ OmittedInBoth(ev, "output_format") => body.output_format = <<"p","n","g">>
          /\ OmittedInBoth(ev, "negative_prompt") => body.negative_prompt = <<>>
          /\ ev.aspect_ratio # None => body.aspect_ratio = Strip(ev.aspect_ratio[1])
          /\ ev.output_format # None => body.output_format = Strip(ev.output_format[1])

C9_Witness ==
  \E i \in DOMAIN pc :
    /\ Len(calls[i]) >= 1
    /\ OmittedInBoth(event[i], "aspect_ratio")
    /\ OmittedInBoth(event[i], "output_format")
    /\ OmittedInBoth(event[i], "negative_prompt")
    /\ event[i].queryStringParameters # None
    /\ calls[i][1].body =
         [prompt |-> <<"d","o","g">>, negative_prompt |-> <<>>,
          mode |-> "text-to-image", seed |-> 0,
          output_format |-> <<"p","n","g">>, aspect_ratio |-> <<"1",":","1">>]

Succeeded(i) ==
  /\ pc[i] = "done"
  /\ result[i].kind = "returned"
  /\ result[i].response.statusCode = 200
  /\ Len(calls[i]) >= 1

\* C10: in a successful invocation generate_presigned_url is asked for the
\* bucket and key just given to put_object, with the expiration
\* URL_EXPIRES_SECONDS, and the 200 body has the single field presigned_url
\* holding the URL that call returned.
C10_PresignedUrlOfUploadedObject ==
  \A i \in DOMAIN pc :
    Succeeded(i)
    => /\ OpsOf(i) = CallOrder
       /\ calls[i][3].Bucket = calls[i][2].Bucket
       /\ calls[i][3].Key = calls[i][2].Key
       /\ calls[i][3].ExpiresIn = URL_EXPIRES_SECONDS
       /\ Len(rets[i]) = 3 /\ rets[i][3].ok
       /\ DOMAIN result[i].response.body = {"presigned_url"}
       /\ result[i].response.body.presigned_url = rets[i][3].url
       /\ rets[i][3].url.signed
       /\ rets[i][3].url.Key = calls[i][2].Key

C10_Witness ==
  \E i \in DOMAIN pc :
    /\ Succeeded(i)
    /\ OpsOf(i) = CallOrder
    /\ calls[i][2].ContentType = <<"i","m","a","g","e","/","j","p","e","g">>
    /\ result[i].response.body.presigned_url.Key = calls[i][2].Key

----------------------------------------------------------------------------
(* Properties of concurrent invocations, under SpecConcurrent *)

Uploading(i) == Len(calls[i]) >= 2

KeyOf(i) == calls[i][2].Key

\* C7 as claimed: two successful invocations never produce the same storage
\* key, also when they run concurrently and build the key in the same UTC
\* second with the same prefix and output_format.
C7_KeysNeverCollide ==
  \A i, j \in DOMAIN pc :
    (i # j /\ Succeeded(i) /\ Succeeded(j)) => KeyOf(i) # KeyOf(j)

\* C7 as amended: two invocations build the same storage key exactly when
\* they read the same UTC second, use the same output_format and draw the
\* same uuid4 value; the keys differ as soon as one of the three differs.
C7_KeysCollideOnlyOnSameDraw ==
  \A i, j \in DOMAIN pc :
    (i # j /\ Uploading(i) /\ Uploading(j))
    => (KeyOf(i) = KeyOf(j)
        <=> /\ locals[i].second = locals[j].second
            /\ locals[i].hex = locals[j].hex
            /\ calls[i][1].body.output_format = calls[j][1].body.output_format)

C7_Witness ==
  \E i, j \in DOMAIN pc :
    /\ i # j /\ Succeeded(i) /\ Succeeded(j)
    /\ locals[i].second = locals[j].second
    /\ calls[i][1].body.output_format = calls[j][1].body.output_format
    /\ locals[i].hex # locals[j].hex
    /\ KeyOf(i) # KeyOf(j)
    /\ DOMAIN store = {KeyOf(i), KeyOf(j)}

IsUploadSuccess(i) ==
  Succeeded(i) /\ "presigned_url" \in DOMAIN result[i].response.body

IsEarlyResponse(i) ==
  /\ pc[i] = "done"
  /\ result[i].kind = "returned"
  /\ \/ result[i].response.statusCode \in {400, 502}
     \/ /\ result[i].response.statusCode = 200
        /\ "ok" \in DOMAIN result[i].response.body

PutCalls(i) == {k \in 1 .. Len(calls[i]) : calls[i][k].op = "put_object"}

\* the calls an invocation makes on the store: one put_object per 200
\* response carrying presigned_url, none for the OPTIONS 200, 400 and 502
\* responses, and no call that reads or deletes an object
C8_PutCounts ==
  \A i \in DOMAIN pc :
    /\ \A k \in 1 .. Len(calls[i]) :
         calls[i][k].op \in {"invoke_model", "put_object", "generate_presigned_url"}
    /\ IsUploadSuccess(i) => (Cardinality(PutCalls(i)) = 1 /\ rets[i][2].ok)
    /\ IsEarlyResponse(i) => PutCalls(i) = {}

\* a step leaves every object of the store as it is
C8_ObjectsUntouched ==
  \A k \in DOMAIN store : k \in DOMAIN store' /\ store'[k] = store[k]

\* a step changes the store only by the put_object of one invocation, which
\* creates the object of its key, or replaces it when another invocation
\* built the same key from the same second and the same uuid4 value
C8_ChangedByPutOnly ==
  /\ DOMAIN store \subseteq DOMAIN store'
  /\ \A k \in DOMAIN store' :
       (k \notin DOMAIN store \/ store'[k] # store[k])
       => \E i \in DOMAIN pc :
            /\ pc[i] = "put_object" /\ pc'[i] = "done"
            /\ rets'[i][2].op = "put_object" /\ rets'[i][2].ok
            /\ KeyOf(i) = k
            /\ store'[k] = [Body |-> calls[i][2].Body,
                            ContentType |-> calls[i][2].ContentType]
            /\ k \in DOMAIN store
                 => \E j \in DOMAIN pc :
                      /\ j # i /\ Uploading(j) /\ KeyOf(j) = k
                      /\ locals[j] = locals[i]

\* C8 as claimed: the store changes only by additions made through
\* put_object: one put_object per 200 response with presigned_url, none for
\* the OPTIONS 200, 400 and 502 responses, and no invocation reads, deletes
\* or modifies an object already in the store.
C8_StoreOnlyGrows == []C8_PutCounts /\ [][C8_ObjectsUntouched]_vars

\* C8 as amended: one put_object per 200 response with presigned_url, none
\* for the OPTIONS 200, 400 and 502 responses, no read and no delete; the
\* store changes only through put_object, which adds an object, or replaces
\* the object of another invocation when both built the same key (same
\* second, same uuid4 value).
C8_StoreChangesOnlyByPut == []C8_PutCounts /\ [][C8_ChangedByPutOnly]_vars

C8_Witness ==
  \E i, j \in DOMAIN pc :
    /\ i # j /\ IsUploadSuccess(i) /\ IsEarlyResponse(j)
    /\ DOMAIN store = {KeyOf(i)}
    /\ store[KeyOf(i)].Body = calls[i][2].Body

====
